---- MODULE Spec2Model ----
(***************************************************************************)
(* Model of the autocandidate job pipeline: main.py (runner,               *)
(* call_scrape_jobs, normalize_and_filter), jobspy.py (the scrape_jobs     *)
(* that is bound at import time, _call_adapter_search, _normalize_jobs and *)
(* the earlier scrape_jobs with its recency filter) and                    *)
(* gspread_uploader.py (auth_gspread, fetch_existing_urls,                 *)
(* append_new_rows).                                                       *)
(*                                                                         *)
(* Python strings that the code takes apart (URLs, cell values) are        *)
(* sequences of one-character strings.  None and NaN are one-element       *)
(* sequences holding a token no character sequence can equal.  A Python    *)
(* dict is a function whose DOMAIN is the set of keys it has.              *)
(***************************************************************************)
EXTENDS Integers, Sequences, FiniteSets, TLC

\* ------------------------------------------------------------------ bounds
MaxRows == 1        \* records one adapter returns to a run of main()
MaxItems == 2       \* records one adapter returns to a direct scrape_jobs call
MaxAdapters == 2    \* length of an explicit adapters= list
MaxRuns == 2        \* scheduled runs against the same sheet
MaxBatch == 3       \* rows of a batch handed straight to normalize_and_filter
MaxPosted == 2      \* items handed to the earlier scrape_jobs
MaxUrlLen == 3      \* characters of a URL handed to the normalizers

\* ------------------------------------------------------- values and strings
NoneV == <<"None">>
NaN == <<"NaN">>

\* str(v) as pandas' astype(str) renders a cell
Str(v) ==
  IF v = NoneV THEN <<"N", "o", "n", "e">>
  ELSE IF v = NaN THEN <<"n", "a", "n">>
  ELSE v

\* Python truthiness of a value that is None or a string
Truthy(v) == v # NoneV /\ v # <<>>

\* Python `a or b`
Or(a, b) == IF Truthy(a) THEN a ELSE b

\* dict.get(k)
Get(d, k) == IF k \in DOMAIN d THEN d[k] ELSE NoneV

\* u.rsplit("?", 1)[0]: cut at the last "?"
StripQueryLast(u) ==
  IF \A k \in 1..Len(u) : u[k] # "?" THEN u
  ELSE SubSeq(u, 1, (CHOOSE k \in 1..Len(u) :
                       u[k] = "?" /\ \A j \in (k + 1)..Len(u) : u[j] # "?") - 1)

RECURSIVE StripQuery(_)
\* u.split("?")[0]
StripQuery(u) ==
  IF u = <<>> THEN <<>>
  ELSE IF Head(u) = "?" THEN <<>>
  ELSE <<Head(u)>> \o StripQuery(Tail(u))

\* ------------------------------------------------------------- constants
\* main.py TARGET_COLS
TARGET_COLS ==
  <<"Date Scraped", "Platform", "Job Title", "Company", "Location",
    "Posted", "Salary", "Job URL", "Description", "Raw">>

\* jobspy.py TARGET_COLS
JOBSPY_TARGET_COLS ==
  <<"Date Scraped", "Platform", "Job Title", "Company", "Location",
    "Job Type", "Salary Estimate", "Job URL", "Description Snippet",
    "Application Status">>

PAYWALLED_OR_LOGIN == {"flexjobs"}

DEFAULT_ADAPTERS == <<"remotive", "remoteok">>

\* main.py: the hard-coded term list handed to call_scrape_jobs
SEARCH_TERMS ==
  << <<"aws">>, <<"cloud">>, <<"lambda">>, <<"automation">>, <<"through">>,
     <<"user">>, <<"engineer">>, <<"india">> >>

\* parameter names of the scrape_jobs bound at import time: (*args, **kwargs)
ScrapeJobsParams == {"args", "kwargs"}

\* header row of the worksheet, the keys of get_all_records()
SHEET_HEADER == JOBSPY_TARGET_COLS

\* 1-based position of column c in a column list
ColIndex(cols, c) == CHOOSE k \in 1..Len(cols) : cols[k] = c

\* ------------------------------------------------------ jobspy.py helpers
\* the dedupe key of _normalize_jobs: url or link, else (title, company)
JobKey(j) ==
  LET url == Or(Get(j, "url"), Get(j, "link"))
  IN IF Truthy(url)
       THEN [kind |-> "str", v |-> url]
       ELSE [kind |-> "tuple", v |-> <<Get(j, "title"), Get(j, "company")>>]

RECURSIVE NormalizeJobsLoop(_, _, _)
NormalizeJobsLoop(jobs, seen, out) ==
  IF jobs = <<>> THEN out
  ELSE LET j == Head(jobs)
           key == JobKey(j)
       IN IF key \in seen
            THEN NormalizeJobsLoop(Tail(jobs), seen, out)
            ELSE NormalizeJobsLoop(Tail(jobs), seen \cup {key}, Append(out, j))

\* _normalize_jobs(jobs)
NormalizeJobs(jobs) == NormalizeJobsLoop(jobs, {}, <<>>)

\* ------------------------------------------------------- main.py helpers
\* the columns pd.DataFrame(raw_jobs) gets from a list of dicts
FrameKeys(raw) == UNION {DOMAIN raw[i] : i \in DOMAIN raw}

\* cell of column c in the row built from dict j: a column no dict has is
\* filled with "", a key this dict lacks is NaN
Cell(raw, j, c) ==
  IF c \notin FrameKeys(raw) THEN <<>>
  ELSE IF c \in DOMAIN j THEN j[c]
  ELSE NaN

\* value of the "Job URL" column of a frame row
JobUrl(row) == row.vals[ColIndex(TARGET_COLS, "Job URL")]

RECURSIVE DropDuplicates(_, _)
\* df.drop_duplicates(subset=["Job URL"]): keep the first row of each URL
DropDuplicates(rows, seen) ==
  IF rows = <<>> THEN <<>>
  ELSE IF JobUrl(Head(rows)) \in seen
    THEN DropDuplicates(Tail(rows), seen)
    ELSE <<Head(rows)>> \o DropDuplicates(Tail(rows), seen \cup {JobUrl(Head(rows))})

\* normalize_and_filter(raw_jobs); a frame row keeps its index label idx,
\* the 0-based position of its dict in raw_jobs
normalize_and_filter(raw) ==
  LET row(i) ==
        [idx |-> i - 1,
         vals |-> [k \in 1..Len(TARGET_COLS) |->
                     IF TARGET_COLS[k] = "Job URL"
                       THEN StripQuery(Str(Cell(raw, raw[i], TARGET_COLS[k])))
                       ELSE Cell(raw, raw[i], TARGET_COLS[k])]]
  IN [columns |-> TARGET_COLS,
      rows |-> DropDuplicates([i \in 1..Len(raw) |-> row(i)], {})]

\* the selection with the `~` lost
SelectNewKeepAll(frame, ex) == frame

\* processed[~processed["Job URL"].isin(existing)]
SelectNew(frame, ex) ==
  [columns |-> frame.columns,
   rows |-> SelectSeq(frame.rows, LAMBDA r : JobUrl(r) \notin ex)]

\* ---------------------------------------------- gspread_uploader.py helpers
\* the loader looking for a column the sheet does not have
fetch_existing_urls_none(recs) == {}

\* fetch_existing_urls on the records get_all_records() returned
fetch_existing_urls(recs) ==
  IF recs = <<>> THEN {}
  ELSE IF \E k \in 1..Len(SHEET_HEADER) : SHEET_HEADER[k] = "Job URL"
    THEN {StripQuery(Str(recs[i][ColIndex(SHEET_HEADER, "Job URL")])) : i \in 1..Len(recs)}
    ELSE {}

\* df_new.values.tolist()
ValuesToList(frame) == [i \in 1..Len(frame.rows) |-> frame.rows[i].vals]

\* ------------------------------------------------------------------ inputs
\* URLs the job boards serve: plain, with a query string, and another job
Urls == { <<"a">>, <<"a", "?", "x">>, <<"b">> }

\* a record as adapters/fake.py returns it
RawRecord(u) == [url |-> u, title |-> <<"E">>]

\* a record that already carries the unified "Job URL" key beside url
UnifiedRecord(u) == ("url" :> u) @@ ("Job URL" :> u)

Records == {RawRecord(u) : u \in Urls} \cup {UnifiedRecord(u) : u \in Urls}

\* timedelta(hours=1) in seconds
SecondsPerHour == 3600

\* datetime.utcnow() of the model's run
NowValues == {100000}

HoursValues == {1, 24}

\* posting times at a cutoff and one second before it
PostedTimes ==
  UNION {{n - h * SecondsPerHour, n - h * SecondsPerHour - 1} : n \in NowValues, h \in HoursValues}

\* a record with the date_posted the job boards' records carry, here an ISO
\* string of the earliest posting time
DatedRecord(u) ==
  [url |-> u, title |-> <<"E">>,
   date_posted |-> <<"iso", CHOOSE t \in PostedTimes : \A o \in PostedTimes : t <= o>>]

\* records served to a direct scrape_jobs call: two different rows with one
\* url, and another job
ScrapeRecords == {RawRecord(<<"a">>), UnifiedRecord(<<"a">>), DatedRecord(<<"b">>)}

\* lists of at most n records of a pool
Lists(pool, n) == UNION {[1..m -> pool] : m \in 0..n}

\* ways GCP credentials can be configured (auth_gspread)
CredsCases ==
  {"json", "json_unparseable", "path", "path_missing", "path_unreadable", "none"}

\* adapter names a caller may pass in adapters=
AdapterNames == {"remotive", "remoteok", "FlexJobs"}

\* str(x).lower() on the names above
Lower(n) == IF n = "FlexJobs" THEN "flexjobs" ELSE n

\* str(x).strip() is empty
Blank(n) == n \in {"", " "}

\* what an imported adapter module offers (_call_adapter_search)
Shapes == {"search", "scrape", "run", "callable", "none"}

\* ------------------------------------------------------------------- state
VARIABLES
  pc,              \* position of the run
  run,             \* number of the scheduled run
  sheet_id,        \* JOB_SHEET_ID is set
  creds,           \* how the credentials are configured
  sheet,           \* data rows of the worksheet
  existing,        \* main: existing
  kwargs,          \* keyword arguments scrape_jobs received
  query,           \* scrape_jobs: query
  adapters_to_try, \* scrape_jobs: adapters_to_try
  pos,             \* scrape_jobs: 1-based position in adapters_to_try
  all_jobs,        \* scrape_jobs: all_jobs
  raw_jobs,        \* value scrape_jobs returned
  processed,       \* main: processed
  new_rows,        \* main: new_rows
  appended,        \* value append_new_rows returned
  exit_status,     \* process exit status, -1 while running
  log,             \* adapter calls, imports and sheet operations of this run
  reads_ok,        \* no get_all_records() has failed in any run so far
  items,           \* earlier scrape_jobs: items the adapters returned
  hours_old,       \* earlier scrape_jobs: hours_old
  now,             \* datetime.utcnow(), in seconds
  df,              \* earlier scrape_jobs: rows of df
  url,             \* a URL handed to the two normalizers
  normalized       \* what the normalizers returned, one entry per application

vars ==
  <<pc, run, sheet_id, creds, sheet, existing, kwargs, query, adapters_to_try,
    pos, all_jobs, raw_jobs, processed, new_rows, appended, exit_status, log,
    reads_ok, items, hours_old, now, df, url, normalized>>

\* state of the earlier scrape_jobs and of the normalizers called on their
\* own, untouched by a run of main()
legacyVars == <<items, hours_old, now, df, url, normalized>>

EmptyFrame == [columns |-> TARGET_COLS, rows |-> <<>>]

\* None where a frame is expected
NoneFrame == [columns |-> NoneV, rows |-> <<>>]

\* values of the run-local variables before a run has touched them
RunLocalsInit ==
  /\ existing = {}
  /\ kwargs = <<>>
  /\ query = <<>>
  /\ adapters_to_try = <<>>
  /\ pos = 1
  /\ all_jobs = <<>>
  /\ raw_jobs = <<>>
  /\ processed = EmptyFrame
  /\ new_rows = EmptyFrame
  /\ appended = 0
  /\ exit_status = -1
  /\ log = <<>>

\* the earlier scrape_jobs is not running
LegacyIdle ==
  /\ items = <<>>
  /\ hours_old = 0
  /\ now = 0
  /\ df = <<>>
  /\ url = <<>>
  /\ normalized = <<>>

Init ==
  /\ pc = "main"
  /\ run = 1
  /\ sheet_id \in BOOLEAN
  /\ creds \in CredsCases
  /\ sheet = <<>>
  /\ reads_ok = TRUE
  /\ RunLocalsInit
  /\ LegacyIdle

\* ---------------------------------------------------------------- main.py
\* main(): the SHEET_ID check; sys.exit(1) is SystemExit, which
\* `except Exception` does not catch
MainCheckConfig ==
  /\ pc = "main"
  /\ IF ~sheet_id
       THEN pc' = "exit" /\ exit_status' = 1
       ELSE pc' = "auth" /\ UNCHANGED exit_status
  /\ UNCHANGED <<run, sheet_id, creds, sheet, existing, kwargs, query,
                 adapters_to_try, pos, all_jobs, raw_jobs, processed, new_rows,
                 appended, log>>
  /\ UNCHANGED <<reads_ok, legacyVars>>

\* auth_gspread() going on without credentials
AuthGspreadLenient ==
  /\ pc = "auth"
  /\ IF creds \in {"json", "path", "none"}
       THEN pc' = "open" /\ UNCHANGED exit_status
       ELSE pc' = "exit" /\ exit_status' = 1
  /\ UNCHANGED <<run, sheet_id, creds, sheet, existing, kwargs, query,
                 adapters_to_try, pos, all_jobs, raw_jobs, processed, new_rows,
                 appended, log>>
  /\ UNCHANGED <<reads_ok, legacyVars>>

\* auth_gspread(): every failure is raise SystemExit(message), exit status 1
AuthGspread ==
  /\ pc = "auth"
  /\ IF creds \in {"json", "path"}
       THEN pc' = "open" /\ UNCHANGED exit_status
       ELSE pc' = "exit" /\ exit_status' = 1
  /\ UNCHANGED <<run, sheet_id, creds, sheet, existing, kwargs, query,
                 adapters_to_try, pos, all_jobs, raw_jobs, processed, new_rows,
                 appended, log>>
  /\ UNCHANGED <<reads_ok, legacyVars>>

\* sh.open_by_key(JOB_SHEET_ID).sheet1; an error is caught by main's
\* `except Exception` and ends in sys.exit(1)
OpenSheet ==
  /\ pc = "open"
  /\ \E ok \in BOOLEAN :
       /\ log' = Append(log, [op |-> "open_by_key", ok |-> ok])
       /\ IF ok
            THEN pc' = "fetch" /\ UNCHANGED exit_status
            ELSE pc' = "exit" /\ exit_status' = 1
  /\ UNCHANGED <<run, sheet_id, creds, sheet, existing, kwargs, query,
                 adapters_to_try, pos, all_jobs, raw_jobs, processed, new_rows,
                 appended>>
  /\ UNCHANGED <<reads_ok, legacyVars>>

\* fetch_existing_urls letting the read error through to main's handler
FetchExistingUrlsRaising ==
  /\ pc = "fetch"
  /\ \E ok \in BOOLEAN :
       /\ log' = Append(log, [op |-> "get_all_records", ok |-> ok])
       /\ existing' = IF ok THEN fetch_existing_urls(sheet) ELSE {}
       /\ reads_ok' = (reads_ok /\ ok)
  /\ IF reads_ok' = reads_ok
       THEN pc' = "call_scrape" /\ UNCHANGED exit_status
       ELSE pc' = "exit" /\ exit_status' = 1
  /\ UNCHANGED <<run, sheet_id, creds, sheet, kwargs, query, adapters_to_try,
                 pos, all_jobs, raw_jobs, processed, new_rows, appended>>
  /\ UNCHANGED legacyVars

\* existing = fetch_existing_urls(worksheet); a failed read gives set()
FetchExistingUrls ==
  /\ pc = "fetch"
  /\ \E ok \in BOOLEAN :
       /\ log' = Append(log, [op |-> "get_all_records", ok |-> ok])
       /\ existing' = IF ok THEN fetch_existing_urls(sheet) ELSE {}
       /\ reads_ok' = (reads_ok /\ ok)
  /\ pc' = "call_scrape"
  /\ UNCHANGED <<run, sheet_id, creds, sheet, kwargs, query, adapters_to_try,
                 pos, all_jobs, raw_jobs, processed, new_rows, appended,
                 exit_status>>
  /\ UNCHANGED legacyVars

\* keyword arguments call_scrape_jobs builds from the inspected signature
BuildKwargs(accepted) ==
  (IF "location" \in accepted THEN ("location" :> <<"Remote">>) ELSE <<>>)
  @@ (IF "jobs_per_term" \in accepted THEN ("jobs_per_term" :> <<"12">>)
      ELSE IF "per_term" \in accepted THEN ("per_term" :> <<"12">>)
      ELSE IF "limit" \in accepted THEN ("limit" :> <<"12">>)
      ELSE <<>>)

\* call_scrape_jobs(search_terms, ...): the terms go in positionally, and
\* scrape_jobs(*args, **kwargs) never reads args
CallScrapeJobs ==
  /\ pc = "call_scrape"
  /\ kwargs' = BuildKwargs(ScrapeJobsParams)
  /\ pc' = "scrape_entry"
  /\ UNCHANGED <<run, sheet_id, creds, sheet, existing, query, adapters_to_try,
                 pos, all_jobs, raw_jobs, processed, new_rows, appended,
                 exit_status, log>>
  /\ UNCHANGED <<reads_ok, legacyVars>>

\* --------------------------------------------------------------- jobspy.py
\* scrape_jobs(*args, **kwargs) up to the adapter loop: query and the
\* adapter list come from kwargs only
ScrapeJobsEntry ==
  /\ pc = "scrape_entry"
  /\ query' = Or(Or(Or(Get(kwargs, "query"), Get(kwargs, "terms")),
                    Get(kwargs, "q")), <<>>)
  /\ LET explicit == Or(Or(Get(kwargs, "adapters"), Get(kwargs, "adapter")),
                        Get(kwargs, "adapters_list"))
         listed == IF Truthy(explicit)
                     THEN LET kept == SelectSeq(explicit, LAMBDA x : ~Blank(x))
                          IN [k \in 1..Len(kept) |-> Lower(kept[k])]
                     ELSE <<>>
     IN adapters_to_try' = IF listed = <<>> THEN DEFAULT_ADAPTERS ELSE listed
  /\ pos' = 1
  /\ all_jobs' = <<>>
  /\ pc' = "adapters"
  /\ UNCHANGED <<run, sheet_id, creds, sheet, existing, kwargs, raw_jobs,
                 processed, new_rows, appended, exit_status, log>>
  /\ UNCHANGED <<reads_ok, legacyVars>>

\* the adapter loop with an adapter's exception ending the loop
TryAdapterAborting(Outs) ==
  /\ pc = "adapters"
  /\ pos <= Len(adapters_to_try)
  /\ LET name == adapters_to_try[pos]
     IN \E found \in BOOLEAN :
          IF ~found
            THEN /\ log' = Append(log, [op |-> "import", name |-> name, found |-> FALSE])
                 /\ UNCHANGED all_jobs
            ELSE \E shape \in Shapes, raised \in BOOLEAN, out \in Outs :
                   LET jobs == IF shape = "none" \/ raised THEN <<>> ELSE out
                       call == [op |-> "call", name |-> name,
                                query |-> IF Truthy(query) THEN query ELSE NoneV,
                                raised |-> raised, out |-> jobs]
                   IN /\ log' = IF shape = "none"
                                  THEN Append(log, [op |-> "import", name |-> name, found |-> TRUE])
                                  ELSE Append(Append(log, [op |-> "import", name |-> name, found |-> TRUE]), call)
                      /\ all_jobs' = IF jobs # <<>> THEN all_jobs \o jobs ELSE all_jobs
  /\ pos' = IF \E k \in 1..Len(log') : log'[k].op = "call" /\ log'[k].raised
             THEN Len(adapters_to_try) + 1 ELSE pos + 1
  /\ UNCHANGED <<pc, run, sheet_id, creds, sheet, existing, kwargs, query,
                 adapters_to_try, raw_jobs, processed, new_rows, appended,
                 exit_status>>
  /\ UNCHANGED <<reads_ok, legacyVars>>

\* one round of the adapter loop: _import_adapter_module, then
\* _call_adapter_search, which swallows whatever the adapter raises
TryAdapter(Outs) ==
  /\ pc = "adapters"
  /\ pos <= Len(adapters_to_try)
  /\ LET name == adapters_to_try[pos]
     IN \E found \in BOOLEAN :
          IF ~found
            THEN /\ log' = Append(log, [op |-> "import", name |-> name, found |-> FALSE])
                 /\ UNCHANGED all_jobs
            ELSE \E shape \in Shapes, raised \in BOOLEAN, out \in Outs :
                   LET jobs == IF shape = "none" \/ raised THEN <<>> ELSE out
                       call == [op |-> "call", name |-> name,
                                query |-> IF Truthy(query) THEN query ELSE NoneV,
                                raised |-> raised, out |-> jobs]
                   IN /\ log' = IF shape = "none"
                                  THEN Append(log, [op |-> "import", name |-> name, found |-> TRUE])
                                  ELSE Append(Append(log, [op |-> "import", name |-> name, found |-> TRUE]), call)
                      /\ all_jobs' = IF jobs # <<>> THEN all_jobs \o jobs ELSE all_jobs
  /\ pos' = pos + 1
  /\ UNCHANGED <<pc, run, sheet_id, creds, sheet, existing, kwargs, query,
                 adapters_to_try, raw_jobs, processed, new_rows, appended,
                 exit_status>>
  /\ UNCHANGED <<reads_ok, legacyVars>>

\* after the loop: unique = _normalize_jobs(all_jobs); return unique
ScrapeJobsReturn ==
  /\ pc = "adapters"
  /\ pos > Len(adapters_to_try)
  /\ raw_jobs' = NormalizeJobs(all_jobs)
  /\ pc' = "returned"
  /\ UNCHANGED <<run, sheet_id, creds, sheet, existing, kwargs, query,
                 adapters_to_try, pos, all_jobs, processed, new_rows, appended,
                 exit_status, log>>
  /\ UNCHANGED <<reads_ok, legacyVars>>

\* ------------------------------------------------------- main.py, continued
\* processed = normalize_and_filter(raw_jobs); return when it is empty
NormalizeAndFilter ==
  /\ pc = "returned"
  /\ processed' = normalize_and_filter(raw_jobs)
  /\ IF processed'.rows = <<>>
       THEN pc' = "done" /\ exit_status' = 0
       ELSE pc' = "select" /\ UNCHANGED exit_status
  /\ UNCHANGED <<run, sheet_id, creds, sheet, existing, kwargs, query,
                 adapters_to_try, pos, all_jobs, raw_jobs, new_rows, appended,
                 log>>
  /\ UNCHANGED <<reads_ok, legacyVars>>

\* the selection also recording the selected URLs in existing
SelectNewRowsRecording ==
  /\ pc = "select"
  /\ new_rows' = SelectNew(processed, existing)
  /\ existing' = existing \cup {JobUrl(new_rows'.rows[i]) : i \in 1..Len(new_rows'.rows)}
  /\ IF new_rows'.rows = <<>>
       THEN pc' = "done" /\ exit_status' = 0
       ELSE pc' = "append" /\ UNCHANGED exit_status
  /\ UNCHANGED <<run, sheet_id, creds, sheet, kwargs, query,
                 adapters_to_try, pos, all_jobs, raw_jobs, processed, appended,
                 log>>
  /\ UNCHANGED <<reads_ok, legacyVars>>

\* new_rows = processed[~processed["Job URL"].isin(existing)]
SelectNewRows ==
  /\ pc = "select"
  /\ new_rows' = SelectNew(processed, existing)
  /\ IF new_rows'.rows = <<>>
       THEN pc' = "done" /\ exit_status' = 0
       ELSE pc' = "append" /\ UNCHANGED exit_status
  /\ UNCHANGED <<run, sheet_id, creds, sheet, existing, kwargs, query,
                 adapters_to_try, pos, all_jobs, raw_jobs, processed, appended,
                 log>>
  /\ UNCHANGED <<reads_ok, legacyVars>>

\* append_new_rows calling append_rows a second time after a failure
AppendNewRowsRetrying ==
  /\ pc = "append"
  /\ IF new_rows.columns = NoneV \/ new_rows.rows = <<>>
       THEN appended' = 0 /\ UNCHANGED <<sheet, log>>
       ELSE \E ok \in BOOLEAN :
              /\ log' = IF ok
                          THEN Append(log, [op |-> "append_rows", ok |-> TRUE])
                          ELSE log \o << [op |-> "append_rows", ok |-> FALSE],
                                         [op |-> "append_rows", ok |-> TRUE] >>
              /\ sheet' = sheet \o ValuesToList(new_rows)
              /\ appended' = Len(new_rows.rows)
  /\ pc' = "done"
  /\ exit_status' = 0
  /\ UNCHANGED <<run, sheet_id, creds, existing, kwargs, query,
                 adapters_to_try, pos, all_jobs, raw_jobs, processed, new_rows>>
  /\ UNCHANGED <<reads_ok, legacyVars>>

\* appended = append_new_rows(worksheet, new_rows): 0 and no write for None
\* or an empty frame, else one append_rows call, 0 when it raises
AppendNewRows ==
  /\ pc = "append"
  /\ IF new_rows.columns = NoneV \/ new_rows.rows = <<>>
       THEN appended' = 0 /\ UNCHANGED <<sheet, log>>
       ELSE \E ok \in BOOLEAN :
              /\ log' = Append(log, [op |-> "append_rows", ok |-> ok])
              /\ sheet' = IF ok THEN sheet \o ValuesToList(new_rows) ELSE sheet
              /\ appended' = IF ok THEN Len(new_rows.rows) ELSE 0
  /\ pc' = "done"
  /\ exit_status' = 0
  /\ UNCHANGED <<run, sheet_id, creds, existing, kwargs, query,
                 adapters_to_try, pos, all_jobs, raw_jobs, processed, new_rows>>
  /\ UNCHANGED <<reads_ok, legacyVars>>

\* the scheduler starts the next run once the previous process has ended
NextRun ==
  /\ pc \in {"done", "exit"}
  /\ run < MaxRuns
  /\ run' = run + 1
  /\ pc' = "main"
  /\ sheet_id' \in BOOLEAN
  /\ creds' \in CredsCases
  /\ existing' = {}
  /\ kwargs' = <<>>
  /\ query' = <<>>
  /\ adapters_to_try' = <<>>
  /\ pos' = 1
  /\ all_jobs' = <<>>
  /\ raw_jobs' = <<>>
  /\ processed' = EmptyFrame
  /\ new_rows' = EmptyFrame
  /\ appended' = 0
  /\ exit_status' = -1
  /\ log' = <<>>
  /\ UNCHANGED sheet
  /\ UNCHANGED <<reads_ok, legacyVars>>

Next ==
  \/ MainCheckConfig
  \/ AuthGspread
  \/ OpenSheet
  \/ FetchExistingUrls
  \/ CallScrapeJobs
  \/ ScrapeJobsEntry
  \/ TryAdapter(Lists(Records, MaxRows))
  \/ ScrapeJobsReturn
  \/ NormalizeAndFilter
  \/ SelectNewRows
  \/ AppendNewRows
  \/ NextRun

Spec == Init /\ [][Next]_vars

\* ------------------------------------- deduplication as a function of (B, E)
\* a row that carries "Job URL" and nothing else
RowRecord(u) == "Job URL" :> u

BatchRecords == Records \cup {RowRecord(u) : u \in Urls}

Batches == UNION {[1..m -> BatchRecords] : m \in 0..MaxBatch}

\* existing-URL sets, stripped or not
ExistingSets == SUBSET (Urls \cup {<<>>})

\* main() from normalize_and_filter on, for any batch and any existing set
InitDedupe ==
  /\ pc = "returned"
  /\ run = 1
  /\ sheet_id = TRUE
  /\ creds = "json"
  /\ sheet = <<>>
  /\ reads_ok = TRUE
  /\ existing \in ExistingSets
  /\ raw_jobs \in Batches
  /\ kwargs = <<>>
  /\ query = <<>>
  /\ adapters_to_try = <<>>
  /\ pos = 1
  /\ all_jobs = <<>>
  /\ processed = EmptyFrame
  /\ new_rows = EmptyFrame
  /\ appended = 0
  /\ exit_status = -1
  /\ log = <<>>
  /\ LegacyIdle

NextDedupe ==
  \/ NormalizeAndFilter
  \/ SelectNewRows
  \/ AppendNewRows

SpecDedupe == InitDedupe /\ [][NextDedupe]_vars

\* ------------------------------------------ append_new_rows called directly
\* the frames a caller can pass: None, an empty frame, and what main passes
AppendInputs ==
  {NoneFrame, EmptyFrame}
    \cup {SelectNew(normalize_and_filter(b), e) : b \in Batches, e \in ExistingSets}

\* the sheet before the call: empty, or holding a row of an earlier run
AppendSheets == {<<>>, ValuesToList(normalize_and_filter(<<RowRecord(<<"a">>)>>))}

\* append_new_rows(sheet, df_new); appended is unset
InitAppend ==
  /\ pc = "append"
  /\ run = 1
  /\ sheet_id = TRUE
  /\ creds = "json"
  /\ sheet \in AppendSheets
  /\ reads_ok = TRUE
  /\ existing = {}
  /\ raw_jobs = <<>>
  /\ kwargs = <<>>
  /\ query = <<>>
  /\ adapters_to_try = <<>>
  /\ pos = 1
  /\ all_jobs = <<>>
  /\ processed = EmptyFrame
  /\ new_rows \in AppendInputs
  /\ appended = -1
  /\ exit_status = -1
  /\ log = <<>>
  /\ LegacyIdle

NextAppend == AppendNewRows

SpecAppend == InitAppend /\ [][NextAppend]_vars

\* ----------------------------------------------- scrape_jobs called directly
AdapterLists == UNION {[1..m -> AdapterNames] : m \in 0..MaxAdapters}

\* keyword arguments of a direct call: adapters= as a list, query=
DirectKwargs ==
  {a @@ q : a \in {<<>>} \cup {"adapters" :> l : l \in AdapterLists},
            q \in {<<>>, "query" :> <<"aws">>}}

InitScrape ==
  /\ pc = "scrape_entry"
  /\ run = 1
  /\ sheet_id = TRUE
  /\ creds = "json"
  /\ sheet = <<>>
  /\ reads_ok = TRUE
  /\ kwargs \in DirectKwargs
  /\ existing = {}
  /\ query = <<>>
  /\ adapters_to_try = <<>>
  /\ pos = 1
  /\ all_jobs = <<>>
  /\ raw_jobs = <<>>
  /\ processed = EmptyFrame
  /\ new_rows = EmptyFrame
  /\ appended = 0
  /\ exit_status = -1
  /\ log = <<>>
  /\ LegacyIdle

NextScrape ==
  \/ ScrapeJobsEntry
  \/ TryAdapter(Lists(ScrapeRecords, MaxItems))
  \/ ScrapeJobsReturn

SpecScrape == InitScrape /\ [][NextScrape]_vars

\* ------------------------------------------- jobspy.py, the earlier scrape_jobs
\* dict.get(k, default)
GetDefault(d, k, default) == IF k \in DOMAIN d THEN d[k] ELSE default

NA == <<"N", "/", "A">>

\* one row of _rows_from_items(items, platform_name)
RowFromItem(it, platform_name, today) ==
  ("Date Scraped" :> today)
  @@ ("Platform" :> platform_name)
  @@ ("Job Title" :> GetDefault(it, "title", NA))
  @@ ("Company" :> GetDefault(it, "company", NA))
  @@ ("Location" :> GetDefault(it, "location", NA))
  @@ ("Job Type" :> GetDefault(it, "type", NA))
  @@ ("Salary Estimate" :> GetDefault(it, "salary", NA))
  @@ ("Job URL" :> GetDefault(it, "url", NA))
  @@ ("Description Snippet" :> GetDefault(it, "snippet", NA))
  @@ ("Application Status" :> <<"T", "o", " ", "A", "p", "p", "l", "y">>)
  @@ ("date_posted" :> Get(it, "date_posted"))

\* parse_date(val): a datetime passes through, an ISO string is read by
\* fromisoformat once its "Z" is removed (an offset makes the result
\* timezone-aware), an RFC-822 date by strptime, anything else is None
parse_date(val) ==
  IF val = NoneV THEN NoneV
  ELSE IF val[1] = "datetime" THEN <<"naive", val[2]>>
  ELSE IF val[1] \in {"iso", "isoZ"} THEN <<"naive", val[2]>>
  ELSE IF val[1] = "isoOffset" THEN <<"aware", val[2]>>
  ELSE IF val[1] = "rfc822" THEN <<"naive", val[2]>>
  ELSE NoneV

\* the recency filter on the rows of df: comparing a timezone-aware column
\* with the naive cutoff raises, `except Exception: pass` then leaves df as
\* it was
filter_recent(rows, hours, utcnow) ==
  LET cutoff == utcnow - hours * SecondsPerHour
      parsed(r) == parse_date(r.row["date_posted"])
  IN IF \E k \in 1..Len(rows) : parsed(rows[k]) # NoneV /\ parsed(rows[k])[1] = "aware"
       THEN rows
       ELSE SelectSeq(rows, LAMBDA r : parsed(r) = NoneV \/ parsed(r)[2] >= cutoff)

\* date_posted as the adapters deliver it
PostedValues ==
  {<<kind, t>> : kind \in {"datetime", "iso", "isoZ", "isoOffset", "rfc822"}, t \in PostedTimes}
    \cup {<<"text">>, NoneV}

\* items with a title and each date, and two undated items the source gave
\* no title: the key is missing, or its value is null
PostedItems ==
  {[title |-> <<"E">>, date_posted |-> v] : v \in PostedValues}
    \cup {[date_posted |-> NoneV], [title |-> NoneV, date_posted |-> NoneV]}

\* scrape_jobs(site_name="remotive", hours_old=h) with the items the adapter
\* returned
InitLegacy ==
  /\ pc = "legacy_rows"
  /\ items \in UNION {[1..m -> PostedItems] : m \in 0..MaxPosted}
  /\ hours_old \in HoursValues
  /\ now \in NowValues
  /\ df = <<>>
  /\ url = <<>>
  /\ normalized = <<>>
  /\ run = 1
  /\ sheet_id = TRUE
  /\ creds = "json"
  /\ sheet = <<>>
  /\ reads_ok = TRUE
  /\ RunLocalsInit

pipelineVars ==
  <<run, sheet_id, creds, sheet, existing, kwargs, query, adapters_to_try,
    pos, all_jobs, raw_jobs, processed, new_rows, appended, exit_status, log,
    reads_ok>>

\* the adapter loop: rows = _rows_from_items(items, friendly); an empty
\* all_rows returns an empty frame at once
LegacyCollect ==
  /\ pc = "legacy_rows"
  /\ df' = [i \in 1..Len(items) |->
              [idx |-> i - 1,
               row |-> RowFromItem(items[i], <<"Remotive">>, <<ToString(now \div (24 * SecondsPerHour))>>)]]
  /\ pc' = IF items = <<>> THEN "legacy_done" ELSE "legacy_filter"
  /\ UNCHANGED <<items, hours_old, now, url, normalized, pipelineVars>>

\* the filter on date_posted, then the return of df[TARGET_COLS + ["date_posted"]]
LegacyFilter ==
  /\ pc = "legacy_filter"
  /\ df' = filter_recent(df, hours_old, now)
  /\ pc' = "legacy_done"
  /\ UNCHANGED <<items, hours_old, now, url, normalized, pipelineVars>>

NextLegacy ==
  \/ LegacyCollect
  \/ LegacyFilter

SpecLegacy == InitLegacy /\ [][NextLegacy]_vars

\* ------------------------------------------- the URL normalizers on their own
UrlChars == {"a", "b", "?"}

\* every string of up to MaxUrlLen characters, with any number of "?"
UrlStrings == UNION {[1..m -> UrlChars] : m \in 0..MaxUrlLen}

\* a worksheet record whose Job URL cell is u
SheetRow(u) ==
  [k \in 1..Len(SHEET_HEADER) |->
     IF k = ColIndex(SHEET_HEADER, "Job URL") THEN u ELSE <<>>]

\* the Job URL normalize_and_filter gives a row whose Job URL is u
PipelineUrl(u) == JobUrl(normalize_and_filter(<<RowRecord(u)>>).rows[1])

\* the key fetch_existing_urls loads from a sheet row whose Job URL is u
LoaderUrl(u) == CHOOSE e \in fetch_existing_urls(<<SheetRow(u)>>) : TRUE

InitUrl ==
  /\ pc = "url"
  /\ url \in UrlStrings
  /\ normalized = <<>>
  /\ items = <<>>
  /\ hours_old = 0
  /\ now = 0
  /\ df = <<>>
  /\ run = 1
  /\ sheet_id = TRUE
  /\ creds = "json"
  /\ sheet = <<>>
  /\ reads_ok = TRUE
  /\ RunLocalsInit

\* both normalizers applied to the URL
NormalizeUrl ==
  /\ pc = "url"
  /\ normalized' = <<[pipeline |-> PipelineUrl(url), loader |-> LoaderUrl(url)]>>
  /\ pc' = "url_once"
  /\ UNCHANGED <<url, items, hours_old, now, df, pipelineVars>>

\* both normalizers applied to what they returned
NormalizeAgain ==
  /\ pc = "url_once"
  /\ normalized' = Append(normalized,
                          [pipeline |-> PipelineUrl(normalized[1].pipeline),
                           loader |-> LoaderUrl(normalized[1].loader)])
  /\ pc' = "url_twice"
  /\ UNCHANGED <<url, items, hours_old, now, df, pipelineVars>>

NextUrl ==
  \/ NormalizeUrl
  \/ NormalizeAgain

SpecUrl == InitUrl /\ [][NextUrl]_vars

\* ------------------------------------------------------------------ claims
\* Job URL column of the worksheet's data rows, query-stripped
SheetUrls == [i \in 1..Len(sheet) |-> StripQuery(Str(sheet[i][ColIndex(SHEET_HEADER, "Job URL")]))]

\* C1: for every batch and every existing set, no row selected for
\* appending has a query-stripped Job URL that is in existing, and no two
\* selected rows have the same query-stripped Job URL.
DedupCorrectness ==
  \A i \in 1..Len(new_rows.rows) :
    /\ StripQuery(JobUrl(new_rows.rows[i])) \notin existing
    /\ \A j \in 1..Len(new_rows.rows) :
         i # j => StripQuery(JobUrl(new_rows.rows[i])) # StripQuery(JobUrl(new_rows.rows[j]))

\* a batch of three: one row collapses into an earlier one, one is dropped
\* as already existing, one is selected
DedupWitness ==
  /\ pc = "append"
  /\ Len(raw_jobs) = 3
  /\ Len(processed.rows) = 2
  /\ Len(new_rows.rows) = 1

\* C2: while every sheet read has succeeded, the sheet never holds two rows
\* with the same query-stripped Job URL, and no row about to be appended has
\* a Job URL the sheet already holds.
SheetNeverDuplicates ==
  reads_ok =>
    /\ \A i, j \in 1..Len(sheet) : i # j => SheetUrls[i] # SheetUrls[j]
    /\ pc = "append" =>
         \A k \in 1..Len(new_rows.rows) :
           \A i \in 1..Len(sheet) : JobUrl(new_rows.rows[k]) # SheetUrls[i]

\* a second run finds the job the first run appended and ends without
\* appending it again
RerunWitness ==
  /\ run = 2
  /\ reads_ok
  /\ pc = "done"
  /\ Len(sheet) >= 1
  /\ processed.rows # <<>>
  /\ new_rows.rows = <<>>
  /\ \E k \in 1..Len(processed.rows) :
       \E i \in 1..Len(sheet) : JobUrl(processed.rows[k]) = SheetUrls[i]

\* the dict a frame row was built from
SourceOf(row) == raw_jobs[row.idx + 1]

\* C3: every row handed to the sheet carries as Job URL the url of the raw
\* record it was produced from, cut at the first "?".
RowCarriesStrippedUrl ==
  pc = "append" =>
    \A k \in 1..Len(new_rows.rows) :
      JobUrl(new_rows.rows[k]) = StripQuery(Str(Get(SourceOf(new_rows.rows[k]), "url")))

RECURSIVE FirstOccurrencesLoop(_, _)
FirstOccurrencesLoop(jobs, seen) ==
  IF jobs = <<>> THEN <<>>
  ELSE LET u == StripQuery(Str(Get(Head(jobs), "url")))
       IN IF u \in seen
            THEN FirstOccurrencesLoop(Tail(jobs), seen)
            ELSE <<Head(jobs)>> \o FirstOccurrencesLoop(Tail(jobs), seen \cup {u})

\* the records of a batch whose stripped url no earlier record has
FirstOccurrences(jobs) == FirstOccurrencesLoop(jobs, {})

Calls == SelectSeq(log, LAMBDA e : e.op = "call")

\* the adapter names the loop has been through, in order
Imported ==
  LET imports == SelectSeq(log, LAMBDA e : e.op = "import")
  IN [k \in 1..Len(imports) |-> imports[k].name]

RECURSIVE Returned(_)
\* the rows the calls that did not raise returned, concatenated
Returned(calls) ==
  IF calls = <<>> THEN <<>> ELSE Head(calls).out \o Returned(Tail(calls))

\* C5 as stated: when one adapter raises and another succeeds, scrape_jobs
\* returns exactly the rows of the succeeding adapter.
ReturnsExactlySucceedingRows ==
  (/\ pc = "returned"
   /\ \E k \in 1..Len(Calls) : Calls[k].raised
   /\ \E k \in 1..Len(Calls) : ~Calls[k].raised)
    => {raw_jobs[i] : i \in 1..Len(raw_jobs)}
         = {Returned(Calls)[i] : i \in 1..Len(Returned(Calls))}

\* C5, amended: scrape_jobs gets through every adapter of its list whatever
\* an adapter raises, a raising adapter contributes no row, and it returns
\* the rows of the succeeding adapters less those _normalize_jobs drops as
\* repeats of an earlier row's key.
AdapterIsolation ==
  /\ \A k \in 1..Len(Calls) : Calls[k].raised => Calls[k].out = <<>>
  /\ pc = "returned" =>
       /\ Imported = adapters_to_try
       /\ raw_jobs = NormalizeJobs(Returned(Calls))

\* the first adapter raised, the second returned two rows with one key, and
\* one row came back
IsolationWitness ==
  /\ pc = "returned"
  /\ Len(Calls) = 2
  /\ Calls[1].raised
  /\ ~Calls[2].raised
  /\ Len(Calls[2].out) = 2
  /\ Len(raw_jobs) = 1

\* C6: every adapter invoked in a run is invoked with every search term of
\* the run's term list.
FullCrossProduct ==
  pc = "returned" =>
    \A k \in 1..Len(Calls) : \A t \in 1..Len(SEARCH_TERMS) :
      \E c \in 1..Len(Calls) :
        Calls[c].name = Calls[k].name /\ Calls[c].query = SEARCH_TERMS[t]

\* SHEET_ID or both credential variables are missing
ConfigMissing == ~sheet_id \/ creds = "none"

\* C8: a run whose required configuration is missing never gets past the
\* configuration checks, performs no adapter call, sheet read or sheet
\* append, and ends with a non-zero exit status.
ConfigFailsFast ==
  ConfigMissing =>
    /\ pc \in {"main", "auth", "exit"}
    /\ log = <<>>
    /\ pc = "exit" => exit_status > 0

\* SHEET_ID is set, the credentials are not, and the run has exited
ConfigWitness ==
  /\ pc = "exit"
  /\ sheet_id
  /\ creds = "none"
  /\ exit_status = 1

\* C9: every row appended to the sheet has the ten columns Date Scraped,
\* Platform, Job Title, Company, Location, Job Type, Salary Estimate,
\* Job URL, Description Snippet, Application Status, in that order.
AppendedColumns ==
  (\E k \in 1..Len(log) : log[k].op = "append_rows")
    => new_rows.columns =
         <<"Date Scraped", "Platform", "Job Title", "Company", "Location",
           "Job Type", "Salary Estimate", "Job URL", "Description Snippet",
           "Application Status">>

\* C10: an adapter is invoked only if its name is not marked
\* paywalled/login-only and an implementation was found for it.
OnlyEligibleInvoked ==
  \A k \in 1..Len(Calls) :
    /\ Calls[k].name \notin PAYWALLED_OR_LOGIN
    /\ \E i \in 1..Len(log) :
         log[i].op = "import" /\ log[i].name = Calls[k].name /\ log[i].found

\* C7: the recency filter keeps a row exactly when its parsed posting date
\* is null or is at or after now minus hours_old hours.
RecencyBoundary ==
  pc = "legacy_done" =>
    \A i \in 1..Len(items) :
      LET posted == parse_date(Get(items[i], "date_posted"))
      IN (\E k \in 1..Len(df) : df[k].idx = i - 1)
           <=> (posted = NoneV \/ posted[2] >= now - hours_old * SecondsPerHour)

\* the sheet read of this run failed
ReadFailed == \E k \in 1..Len(log) : log[k].op = "get_all_records" /\ ~log[k].ok

\* C11: when the sheet read fails, existing is the empty set and the run
\* neither raises nor exits: it scrapes, selects every processed row and
\* appends whenever there is one.
ReadFailureRecovered ==
  ReadFailed =>
    /\ existing = {}
    /\ pc # "exit"
    /\ exit_status < 1
    /\ pc \in {"append", "done"} => new_rows = processed
    /\ (pc = "done" /\ processed.rows # <<>>) =>
         \E k \in 1..Len(log) : log[k].op = "append_rows"

\* the second run could not read the sheet and appended again the job the
\* first run had appended
ReadFailureWitness ==
  /\ run = 2
  /\ ReadFailed
  /\ pc = "done"
  /\ appended = 1
  /\ Len(sheet) = 2
  /\ SheetUrls[1] = SheetUrls[2]

\* the append_rows calls made so far
Writes == SelectSeq(log, LAMBDA e : e.op = "append_rows")

\* C12: append_new_rows returns without raising; for None or an empty frame
\* it makes no append_rows call and returns 0; otherwise it makes exactly one
\* call and returns the number of rows when the call succeeds, 0 when it raises.
AppendContract ==
  pc = "done" =>
    /\ exit_status = 0
    /\ IF new_rows.columns = NoneV \/ new_rows.rows = <<>>
         THEN Len(Writes) = 0 /\ appended = 0 /\ sheet \in AppendSheets
         ELSE /\ Len(Writes) = 1
              /\ IF Writes[1].ok
                   THEN /\ appended = Len(new_rows.rows)
                        /\ \E s \in AppendSheets :
                             sheet = s \o ValuesToList(new_rows)
                   ELSE appended = 0 /\ sheet \in AppendSheets

\* append_rows raised on a frame of rows: one call, 0 returned, and the sheet
\* still holds only the row it had
AppendFailureWitness ==
  /\ pc = "done"
  /\ new_rows.rows # <<>>
  /\ Len(Writes) = 1
  /\ ~Writes[1].ok
  /\ appended = 0
  /\ Len(sheet) = 1

\* C13: the two deduplication steps leave the batch and the existing-URL set
\* as they were, and deduplicating the batch against the existing set a
\* second time, after the first, gives the rows the first gave.
DedupeIsPure ==
  [][(pc \in {"returned", "select"}) =>
       (/\ existing' = existing
        /\ raw_jobs' = raw_jobs
        /\ (pc = "select") =>
              (new_rows' = SelectNew(normalize_and_filter(raw_jobs'), existing')))]_vars

\* a deduplication that dropped a row as existing and kept another
DedupeAgainWitness ==
  /\ pc = "append"
  /\ existing # {}
  /\ Len(new_rows.rows) >= 1
  /\ \E i \in 1..Len(processed.rows) : JobUrl(processed.rows[i]) \in existing
  /\ new_rows = SelectNew(normalize_and_filter(raw_jobs), existing)

\* C14: normalizing a normalized URL gives the normalized URL again, in
\* normalize_and_filter and in fetch_existing_urls.
UrlNormalizationIdempotent ==
  pc = "url_twice" =>
    /\ normalized[2].pipeline = normalized[1].pipeline
    /\ normalized[2].loader = normalized[1].loader

\* a URL with two "?" normalized twice: both applications give the part
\* before the first "?"
UrlTwiceWitness ==
  /\ pc = "url_twice"
  /\ url = <<"a", "?", "?">>
  /\ normalized[1] = [pipeline |-> <<"a">>, loader |-> <<"a">>]
  /\ normalized[2] = [pipeline |-> <<"a">>, loader |-> <<"a">>]

\* C15: no row scrape_jobs returns has a parseable posting date older than
\* now minus the recency horizon, for at least one of the horizons a run uses.
ReturnedRowsAreRecent ==
  pc = "returned" =>
    \E h \in HoursValues : \A n \in NowValues :
      \A i \in 1..Len(raw_jobs) :
        LET posted == parse_date(Get(raw_jobs[i], "date_posted"))
        IN posted = NoneV \/ posted[2] >= n - h * SecondsPerHour

\* item keys and the row columns _rows_from_items fills from them
StringFields ==
  { <<"title", "Job Title">>, <<"company", "Company">>,
    <<"location", "Location">>, <<"type", "Job Type">>,
    <<"salary", "Salary Estimate">> }

\* C16: in every row built from an item, each of title, company, location,
\* job type and salary is "N/A" when the item has no such key or has it
\* with the value null.
MissingFieldsAreNA ==
  pc \in {"legacy_filter", "legacy_done"} =>
    \A k \in 1..Len(df) : \A f \in StringFields :
      Get(items[df[k].idx + 1], f[1]) = NoneV => df[k].row[f[2]] = NA

====
